---- MODULE Spec2Model ----
\* Model of CnQuant_utilities/get_variables_from_path.py: six accessors that
\* read the process environment (and, for paths, the filesystem) and either
\* return a typed value or raise EnvironmentVariableNotFoundError.
\*
\* A Python str is a sequence of one-character strings, so that lower(),
\* strip(), int(), float() and Path() are computed character by character.
EXTENDS Integers, Sequences, FiniteSets, TLC

\* env      os.environ: each name's text, or None when unset (read, l. 40, 63,
\*          98, 137, 177, 211)
\* fs       the filesystem os.path.exists looks at (l. 45, 69)
\* call     the accessor called last and its arguments, NoCall after a change
\*          made from outside
\* outcome  what that call did: the value returned or the exception raised
\* stdout   the notice that call printed, NoOutput when it printed none
\* repeat   whether the call before it, with nothing changed in between, was
\*          the same call
VARIABLES env, fs, call, outcome, stdout, repeat

vars == <<env, fs, call, outcome, stdout, repeat>>

\* ---------------------------------------------------------------- bounds
\* Longest text enumerated exhaustively over an alphabet.
MaxLen == 3

\* ------------------------------------------------------- Python values
None == [type |-> "NoneType"]
PyStr(s) == [type |-> "str", str |-> s]
PyInt(i) == [type |-> "int", int |-> i]
PyBool(b) == [type |-> "bool", bool |-> b]
\* A float is modelled by its class and, when finite, by the exact decimal
\* sign * m * 10^e with m free of trailing zeros (the texts enumerated have
\* few digits, where distinct decimals are distinct doubles).
PyFloat(class, sign, m, e) ==
    [type |-> "float", class |-> class, sign |-> sign, m |-> m, e |-> e]

\* Optional[str] as os.getenv returns it.
Some(s) == PyStr(s)

\* ------------------------------------------------------------ str helpers
UpperCase == <<"A","B","C","D","E","F","G","H","I","J","K","L","M",
               "N","O","P","Q","R","S","T","U","V","W","X","Y","Z">>
LowerCase == <<"a","b","c","d","e","f","g","h","i","j","k","l","m",
               "n","o","p","q","r","s","t","u","v","w","x","y","z">>
Digits == <<"0","1","2","3","4","5","6","7","8","9">>
Whitespace == {" ", "\t", "\n"}

Range(s) == {s[i] : i \in 1..Len(s)}

lower_char(c) ==
    IF \E i \in 1..Len(UpperCase) : UpperCase[i] = c
    THEN LowerCase[CHOOSE i \in 1..Len(UpperCase) : UpperCase[i] = c]
    ELSE c

\* Mutant of lower: the text is compared as it is.
lower_noop(s) == s

\* str.lower()
lower(s) == [i \in 1..Len(s) |-> lower_char(s[i])]

RECURSIVE lstrip(_)
lstrip(s) == IF s # <<>> /\ Head(s) \in Whitespace THEN lstrip(Tail(s)) ELSE s

RECURSIVE rstrip(_)
rstrip(s) ==
    IF s # <<>> /\ s[Len(s)] \in Whitespace
    THEN rstrip(SubSeq(s, 1, Len(s) - 1))
    ELSE s

\* str.strip(), applied by int() and float() to their argument
strip(s) == rstrip(lstrip(s))

IsDigit(c) == c \in Range(Digits)
DigitValue(c) == (CHOOSE i \in 1..Len(Digits) : Digits[i] = c) - 1

\* A digit part: digits, single underscores allowed between two digits.
IsDigitPart(s) ==
    /\ s # <<>>
    /\ IsDigit(s[1])
    /\ IsDigit(s[Len(s)])
    /\ \A i \in 1..Len(s) : IsDigit(s[i]) \/ s[i] = "_"
    /\ \A i \in 1..(Len(s) - 1) : ~(s[i] = "_" /\ s[i + 1] = "_")

RECURSIVE DigitsOnly(_)
DigitsOnly(s) ==
    IF s = <<>> THEN <<>>
    ELSE IF Head(s) = "_" THEN DigitsOnly(Tail(s))
    ELSE <<Head(s)>> \o DigitsOnly(Tail(s))

RECURSIVE Decimal(_)
Decimal(s) ==
    IF s = <<>> THEN 0
    ELSE 10 * Decimal(SubSeq(s, 1, Len(s) - 1)) + DigitValue(s[Len(s)])

DigitPartValue(s) == Decimal(DigitsOnly(s))

HasSign(s) == s # <<>> /\ Head(s) \in {"+", "-"}
SignOf(s) == IF s # <<>> /\ Head(s) = "-" THEN -1 ELSE 1
Unsigned(s) == IF HasSign(s) THEN Tail(s) ELSE s

\* int(str): strip, optional sign, digit part; ValueError otherwise.
int(s) ==
    LET t == strip(s)
        body == Unsigned(t)
    IN  IF IsDigitPart(body)
        THEN [ok |-> TRUE, value |-> PyInt(SignOf(t) * DigitPartValue(body))]
        ELSE [ok |-> FALSE, error |-> "ValueError"]

\* Index of the first character of s that is in chars, 0 when there is none.
IndexOf(s, chars) ==
    IF \E i \in 1..Len(s) : s[i] \in chars
    THEN CHOOSE i \in 1..Len(s) :
            s[i] \in chars /\ \A j \in 1..(i - 1) : s[j] \notin chars
    ELSE 0

RECURSIVE Normalise(_, _, _)
Normalise(sign, m, e) ==
    IF m = 0 THEN PyFloat("finite", sign, 0, 0)
    ELSE IF m % 10 = 0 THEN Normalise(sign, m \div 10, e + 1)
    ELSE PyFloat("finite", sign, m, e)

\* float(str): strip, optional sign, then inf / infinity / nan in any case, or
\* [digits][.[digits]][(e|E)[sign]digits] with at least one mantissa digit;
\* ValueError otherwise.
float(s) ==
    LET t == strip(s)
        body == Unsigned(t)
        ei == IndexOf(body, {"e", "E"})
        mant == IF ei = 0 THEN body ELSE SubSeq(body, 1, ei - 1)
        expo == IF ei = 0 THEN <<>> ELSE SubSeq(body, ei + 1, Len(body))
        di == IndexOf(mant, {"."})
        ip == IF di = 0 THEN mant ELSE SubSeq(mant, 1, di - 1)
        fp == IF di = 0 THEN <<>> ELSE SubSeq(mant, di + 1, Len(mant))
        mantOK == /\ ip = <<>> \/ IsDigitPart(ip)
                  /\ fp = <<>> \/ IsDigitPart(fp)
                  /\ ip # <<>> \/ fp # <<>>
        expOK == ei = 0 \/ IsDigitPart(Unsigned(expo))
        e10 == IF ei = 0 THEN 0
               ELSE SignOf(expo) * DigitPartValue(Unsigned(expo))
    IN  IF lower(body) \in {<<"i","n","f">>, <<"i","n","f","i","n","i","t","y">>}
        THEN [ok |-> TRUE, value |-> PyFloat("inf", SignOf(t), 0, 0)]
        ELSE IF lower(body) = <<"n","a","n">>
        THEN [ok |-> TRUE, value |-> PyFloat("nan", 1, 0, 0)]
        ELSE IF mantOK /\ expOK
        THEN [ok |-> TRUE,
              value |-> Normalise(SignOf(t),
                                  Decimal(DigitsOnly(ip) \o DigitsOnly(fp)),
                                  e10 - Len(DigitsOnly(fp)))]
        ELSE [ok |-> FALSE, error |-> "ValueError"]

\* str(object): the text itself for a str, "None" for None.
str(object) ==
    IF object = None THEN PyStr(<<"N","o","n","e">>) ELSE PyStr(object.str)

\* ------------------------------------------------------ paths, filesystem
RECURSIVE Split(_, _)
Split(s, sep) ==
    LET i == IndexOf(s, {sep})
    IN  IF i = 0 THEN <<s>>
        ELSE <<SubSeq(s, 1, i - 1)>> \o Split(SubSeq(s, i + 1, Len(s)), sep)

IsPart(c) == c # <<>> /\ c # <<".">>

\* pathlib.Path(str) on POSIX: "//" is kept as a root, any other run of
\* slashes collapses, empty and "." components are dropped, ".." is kept.
Path(s) ==
    [type |-> "Path",
     root |-> IF s = <<>> \/ Head(s) # "/" THEN ""
              ELSE IF Len(s) >= 2 /\ s[2] = "/" /\ ~(Len(s) >= 3 /\ s[3] = "/")
              THEN "//"
              ELSE "/",
     parts |-> SelectSeq(Split(s, "/"), IsPart)]

\* The filesystem is a tree of named entries below the root; a node is the
\* sequence of component names from the root. The working directory Cwd always
\* exists; every entry of FsEntries is absent, a directory or a file.
Cwd == << <<"s","r","v">> >>
Logs == <<"l","o","g","s">>
FsEntries == {Cwd \o <<Logs>>}
Kinds == {"absent", "dir", "file"}
NoEntry == << <<>> >>

KindOf(node, f) ==
    IF node = <<>> \/ node = Cwd THEN "dir"
    ELSE IF node \in DOMAIN f THEN f[node]
    ELSE "absent"

\* Path resolution as stat() does it: every component but the last is looked
\* up in a directory; "" and "." stay, ".." goes to the parent.
RECURSIVE Walk(_, _, _)
Walk(node, comps, f) ==
    IF comps = <<>> THEN node
    ELSE IF KindOf(node, f) # "dir" THEN NoEntry
    ELSE IF Head(comps) \in {<<>>, <<".">>} THEN Walk(node, Tail(comps), f)
    ELSE IF Head(comps) = <<".", ".">>
    THEN Walk(IF node = <<>> THEN node ELSE SubSeq(node, 1, Len(node) - 1),
              Tail(comps), f)
    ELSE Walk(node \o <<Head(comps)>>, Tail(comps), f)

\* os.path.exists(path): False for "" (stat fails), else whether the path
\* resolves to an entry.
exists(path, f) ==
    /\ path # <<>>
    /\ KindOf(Walk(IF Head(path) = "/" THEN <<>> ELSE Cwd, Split(path, "/"), f),
              f) # "absent"

\* os.getenv(key): the value, or None when the variable is unset.
getenv(key, environ) == environ[key]

\* Mutant of is_None: "not x", which holds of the empty text too.
is_falsy(x) == x = None \/ x = PyStr(<<>>)

\* "x is None"
is_None(x) == x = None

\* ------------------------------------------------------------- outcomes
\* EnvironmentVariableNotFoundError(variable_name) with the default message.
EnvironmentVariableNotFoundError(variable_name) ==
    [type |-> "EnvironmentVariableNotFoundError",
     variable_name |-> variable_name,
     message |-> <<"Environment variable '", variable_name, "' not found.">>]

Return(value) == [kind |-> "return", value |-> value]
Raise(exception) == [kind |-> "raise", exception |-> exception]

\* print(f"...") of a fallback notice: the literal text and the values
\* interpolated into it, in order.
print(text, name, shown, default_value) ==
    [text |-> text, name |-> name, shown |-> shown, default |-> default_value]

NoOutput == [text |-> ""]
NoCall == [fn |-> "none"]
NoOutcome == [kind |-> "none"]

\* ------------------------------------------------------ enumerated inputs
Names == {"LOG_DIR", "PORT"}

\* Texts an environment variable takes in the full model: one or two of each
\* kind the accessors tell apart.
EnvTexts ==
    { <<>>,
      <<"4","2">>, <<" ","-","4","_","2","\n">>, <<"4",".","0">>,
      <<"1",".","5","e","3">>, <<"N","a","N">>,
      <<"a","b","c">>,
      <<"T","r","u","e">>, <<"1">>, <<"O","F","F">>, <<"n","o">>,
      <<"l","o","g","s">>, <<".","/","l","o","g","s","/">>,
      <<"/","s","r","v","/","/","l","o","g","s">>,
      <<"/","n","o","p","e">>, <<".">> }

IntDefaults == {PyInt(7), PyFloat("finite", 1, 25, -1)}
FloatDefaults == {PyFloat("finite", 1, 25, -1), PyInt(7)}
BoolDefaults == {PyBool(TRUE), PyBool(FALSE)}
StrDefaults == {PyStr(<<>>), PyStr(<<"d","f","l","t">>)}

\* All texts over an alphabet up to a length.
TextsOver(alphabet, n) == UNION {[1..k -> alphabet] : k \in 0..n}

\* ------------------------------------------------------------- accessors
\* Every accessor records its call; repeat tells whether the call before it,
\* with nothing changed in between, was the same one.
Called(c) ==
    /\ call' = c
    /\ repeat' = (call = c)

\* Mutant of get_log_directory: a missing directory is created and returned.
get_log_directory_makedirs(env_variable) ==
    LET log_directory == getenv(env_variable, env)
        node == Walk(IF Head(log_directory.str) = "/" THEN <<>> ELSE Cwd,
                     Split(log_directory.str, "/"), fs)
    IN  /\ Called([fn |-> "get_log_directory", env_variable |-> env_variable])
        /\ outcome' =
             IF is_None(log_directory) THEN Return(Path(<<".">>))
             ELSE Return(Path(log_directory.str))
        /\ fs' = IF ~is_None(log_directory)
                    /\ log_directory.str # <<>>
                    /\ ~exists(log_directory.str, fs)
                    /\ node \in FsEntries
                 THEN [fs EXCEPT ![node] = "dir"]
                 ELSE fs
        /\ stdout' = NoOutput
        /\ UNCHANGED env

get_log_directory(env_variable) ==
    LET log_directory == getenv(env_variable, env)
    IN  /\ Called([fn |-> "get_log_directory", env_variable |-> env_variable])
        /\ outcome' =
             IF is_None(log_directory) THEN Return(Path(<<".">>))
             ELSE IF ~exists(log_directory.str, fs)
             THEN Raise(EnvironmentVariableNotFoundError(env_variable))
             ELSE Return(Path(log_directory.str))
        /\ stdout' = NoOutput
        /\ UNCHANGED <<env, fs>>

\* Mutant of get_path_from_env: the existence check ignores check_if_exists.
get_path_from_env_always_checks(env_variable, check_if_exists) ==
    LET env_value == getenv(env_variable, env)
    IN  /\ Called([fn |-> "get_path_from_env", env_variable |-> env_variable,
                    check_if_exists |-> check_if_exists])
        /\ outcome' =
             IF is_None(env_value)
             THEN Raise(EnvironmentVariableNotFoundError(env_variable))
             ELSE IF ~exists(env_value.str, fs)
             THEN Raise(EnvironmentVariableNotFoundError(env_variable))
             ELSE Return(Path(env_value.str))
        /\ stdout' = NoOutput
        /\ UNCHANGED <<env, fs>>

get_path_from_env(env_variable, check_if_exists) ==
    LET env_value == getenv(env_variable, env)
    IN  /\ Called([fn |-> "get_path_from_env", env_variable |-> env_variable,
                    check_if_exists |-> check_if_exists])
        /\ outcome' =
             IF is_None(env_value)
             THEN Raise(EnvironmentVariableNotFoundError(env_variable))
             ELSE IF check_if_exists /\ ~exists(env_value.str, fs)
             THEN Raise(EnvironmentVariableNotFoundError(env_variable))
             ELSE Return(Path(env_value.str))
        /\ stdout' = NoOutput
        /\ UNCHANGED <<env, fs>>

\* Mutant of get_integer_from_env: the ValueError of int() is not caught.
get_integer_from_env_uncaught(env_variable, default_value) ==
    LET env_value == getenv(env_variable, env)
    IN  /\ Called([fn |-> "get_integer_from_env", env_variable |-> env_variable,
                    default_value |-> default_value])
        /\ IF is_None(env_value)
           THEN /\ stdout' = print("Environment variable {} has not been found. Defaulting to {}",
                                   env_variable, "", default_value)
                /\ outcome' = Return(default_value)
           ELSE IF int(env_value.str).ok
           THEN /\ stdout' = NoOutput
                /\ outcome' = Return(int(env_value.str).value)
           ELSE /\ stdout' = NoOutput
                /\ outcome' = Raise([type |-> int(env_value.str).error])
        /\ UNCHANGED <<env, fs>>

\* Mutant of get_integer_from_env: the text is tested with str.isdigit()
\* before int(), so signs, blanks and underscores fall back to the default.
get_integer_from_env_isdigit(env_variable, default_value) ==
    LET env_value == getenv(env_variable, env)
    IN  /\ Called([fn |-> "get_integer_from_env", env_variable |-> env_variable,
                    default_value |-> default_value])
        /\ IF is_None(env_value)
           THEN /\ stdout' = print("Environment variable {} has not been found. Defaulting to {}",
                                   env_variable, "", default_value)
                /\ outcome' = Return(default_value)
           ELSE IF /\ env_value.str # <<>>
                   /\ \A i \in 1..Len(env_value.str) : IsDigit(env_value.str[i])
           THEN /\ stdout' = NoOutput
                /\ outcome' = Return(int(env_value.str).value)
           ELSE /\ stdout' = print("Error: {} environment variable '{}' is not a valid integer. Defaulting to {}.",
                                   env_variable, env_variable, default_value)
                /\ outcome' = Return(default_value)
        /\ UNCHANGED <<env, fs>>

get_integer_from_env(env_variable, default_value) ==
    LET env_value == getenv(env_variable, env)
    IN  /\ Called([fn |-> "get_integer_from_env", env_variable |-> env_variable,
                    default_value |-> default_value])
        /\ IF is_None(env_value)
           THEN /\ stdout' = print("Environment variable {} has not been found. Defaulting to {}",
                                   env_variable, "", default_value)
                /\ outcome' = Return(default_value)
           ELSE IF int(env_value.str).ok
           THEN /\ stdout' = NoOutput
                /\ outcome' = Return(int(env_value.str).value)
           ELSE /\ stdout' = print("Error: {} environment variable '{}' is not a valid integer. Defaulting to {}.",
                                   env_variable, env_variable, default_value)
                /\ outcome' = Return(default_value)
        /\ UNCHANGED <<env, fs>>

\* Mutant of get_float_from_env: the default is passed through float().
get_float_from_env_coerce(env_variable, default_value) ==
    LET env_value == getenv(env_variable, env)
        coerced == IF default_value.type = "int"
                   THEN Normalise(IF default_value.int < 0 THEN -1 ELSE 1,
                                  IF default_value.int < 0
                                  THEN -default_value.int ELSE default_value.int,
                                  0)
                   ELSE default_value
    IN  /\ Called([fn |-> "get_float_from_env", env_variable |-> env_variable,
                    default_value |-> default_value])
        /\ IF is_None(env_value)
           THEN /\ stdout' = print("Error: {} environment variable has not been set in .env file. Defaulting to {}.",
                                   env_variable, "", default_value)
                /\ outcome' = Return(coerced)
           ELSE IF float(env_value.str).ok
           THEN /\ stdout' = NoOutput
                /\ outcome' = Return(float(env_value.str).value)
           ELSE /\ stdout' = print("Error: {} environment variable '{}' is not a valid float. Defaulting to {}.",
                                   env_variable, env_variable, default_value)
                /\ outcome' = Return(coerced)
        /\ UNCHANGED <<env, fs>>

get_float_from_env(env_variable, default_value) ==
    LET env_value == getenv(env_variable, env)
    IN  /\ Called([fn |-> "get_float_from_env", env_variable |-> env_variable,
                    default_value |-> default_value])
        /\ IF is_None(env_value)
           THEN /\ stdout' = print("Error: {} environment variable has not been set in .env file. Defaulting to {}.",
                                   env_variable, "", default_value)
                /\ outcome' = Return(default_value)
           ELSE IF float(env_value.str).ok
           THEN /\ stdout' = NoOutput
                /\ outcome' = Return(float(env_value.str).value)
           ELSE /\ stdout' = print("Error: {} environment variable '{}' is not a valid float. Defaulting to {}.",
                                   env_variable, env_variable, default_value)
                /\ outcome' = Return(default_value)
        /\ UNCHANGED <<env, fs>>

\* Mutant of get_string_from_env: an unset variable is set to the default
\* (os.environ.setdefault) after it was read.
get_string_from_env_setdefault(env_variable, default_value, error_on_missing_value) ==
    LET env_value == getenv(env_variable, env)
    IN  /\ Called([fn |-> "get_string_from_env", env_variable |-> env_variable,
                    default_value |-> default_value,
                    error_on_missing_value |-> error_on_missing_value])
        /\ outcome' =
             IF error_on_missing_value /\ is_None(env_value)
             THEN Raise(EnvironmentVariableNotFoundError(env_variable))
             ELSE Return(str(env_value))
        /\ env' = IF is_None(env_value) /\ ~error_on_missing_value
                  THEN [env EXCEPT ![env_variable] = default_value]
                  ELSE env
        /\ stdout' = NoOutput
        /\ UNCHANGED fs

\* str(object=env_value) never raises ValueError, so the except branch that
\* returns default_value is never taken.
get_string_from_env(env_variable, default_value, error_on_missing_value) ==
    LET env_value == getenv(env_variable, env)
    IN  /\ Called([fn |-> "get_string_from_env", env_variable |-> env_variable,
                    default_value |-> default_value,
                    error_on_missing_value |-> error_on_missing_value])
        /\ outcome' =
             IF error_on_missing_value /\ is_None(env_value)
             THEN Raise(EnvironmentVariableNotFoundError(env_variable))
             ELSE Return(str(env_value))
        /\ stdout' = NoOutput
        /\ UNCHANGED <<env, fs>>

\* Mutant of get_boolean_from_env: the lowered text is written back to the
\* variable.
get_boolean_from_env_writeback(env_variable, default_value) ==
    LET env_value == getenv(env_variable, env)
        lower_env_value == lower(env_value.str)
    IN  /\ Called([fn |-> "get_boolean_from_env", env_variable |-> env_variable,
                    default_value |-> default_value])
        /\ IF is_None(env_value)
           THEN /\ stdout' = print("Error: {} environment variable has not been set in .env file. Defaulting to {}.",
                                   env_variable, "", default_value)
                /\ outcome' = Return(default_value)
                /\ env' = env
           ELSE /\ env' = [env EXCEPT ![env_variable] = Some(lower_env_value)]
                /\ IF lower_env_value \in {<<"t","r","u","e">>, <<"1">>,
                                           <<"y","e","s">>, <<"o","n">>}
                   THEN /\ stdout' = NoOutput
                        /\ outcome' = Return(PyBool(TRUE))
                   ELSE IF lower_env_value \in {<<"f","a","l","s","e">>, <<"0">>,
                                                <<"n","o">>, <<"o","f","f">>}
                   THEN /\ stdout' = NoOutput
                        /\ outcome' = Return(PyBool(FALSE))
                   ELSE /\ stdout' = print("Error: {} environment variable '{}' is not a valid boolean. Defaulting to {}.",
                                           env_variable, env_value.str, default_value)
                        /\ outcome' = Return(default_value)
        /\ UNCHANGED fs

get_boolean_from_env(env_variable, default_value) ==
    LET env_value == getenv(env_variable, env)
        lower_env_value == lower(env_value.str)
    IN  /\ Called([fn |-> "get_boolean_from_env", env_variable |-> env_variable,
                    default_value |-> default_value])
        /\ IF is_None(env_value)
           THEN /\ stdout' = print("Error: {} environment variable has not been set in .env file. Defaulting to {}.",
                                   env_variable, "", default_value)
                /\ outcome' = Return(default_value)
           ELSE IF lower_env_value \in {<<"t","r","u","e">>, <<"1">>,
                                        <<"y","e","s">>, <<"o","n">>}
           THEN /\ stdout' = NoOutput
                /\ outcome' = Return(PyBool(TRUE))
           ELSE IF lower_env_value \in {<<"f","a","l","s","e">>, <<"0">>,
                                        <<"n","o">>, <<"o","f","f">>}
           THEN /\ stdout' = NoOutput
                /\ outcome' = Return(PyBool(FALSE))
           ELSE /\ stdout' = print("Error: {} environment variable '{}' is not a valid boolean. Defaulting to {}.",
                                   env_variable, env_value.str, default_value)
                /\ outcome' = Return(default_value)
        /\ UNCHANGED <<env, fs>>

\* ------------------------------------------------ the accessors' surroundings
\* The process environment and the filesystem are changed only from outside
\* the module; such a step forgets the last call.
Forget ==
    /\ call' = NoCall
    /\ outcome' = NoOutcome
    /\ stdout' = NoOutput
    /\ repeat' = FALSE

setenv(name, text) ==
    /\ env[name] # Some(text)
    /\ env' = [env EXCEPT ![name] = Some(text)]
    /\ Forget
    /\ UNCHANGED fs

unsetenv(name) ==
    /\ env[name] # None
    /\ env' = [env EXCEPT ![name] = None]
    /\ Forget
    /\ UNCHANGED fs

mkdir(entry) ==
    /\ fs[entry] = "absent"
    /\ fs' = [fs EXCEPT ![entry] = "dir"]
    /\ Forget
    /\ UNCHANGED env

touch(entry) ==
    /\ fs[entry] = "absent"
    /\ fs' = [fs EXCEPT ![entry] = "file"]
    /\ Forget
    /\ UNCHANGED env

remove(entry) ==
    /\ fs[entry] # "absent"
    /\ fs' = [fs EXCEPT ![entry] = "absent"]
    /\ Forget
    /\ UNCHANGED env

\* --------------------------------------------------------- specifications
Init ==
    /\ env = [n \in Names |-> None]
    /\ fs = [e \in FsEntries |-> "absent"]
    /\ call = NoCall
    /\ outcome = NoOutcome
    /\ stdout = NoOutput
    /\ repeat = FALSE

Next ==
    \/ \E n \in Names : get_log_directory(n)
    \/ \E n \in Names, c \in BOOLEAN : get_path_from_env(n, c)
    \/ \E n \in Names, d \in IntDefaults : get_integer_from_env(n, d)
    \/ \E n \in Names, d \in FloatDefaults : get_float_from_env(n, d)
    \/ \E n \in Names, d \in StrDefaults, e \in BOOLEAN :
          get_string_from_env(n, d, e)
    \/ \E n \in Names, d \in BoolDefaults : get_boolean_from_env(n, d)
    \/ \E n \in Names, t \in EnvTexts : setenv(n, t)
    \/ \E n \in Names : unsetenv(n)
    \/ \E e \in FsEntries : mkdir(e)
    \/ \E e \in FsEntries : touch(e)
    \/ \E e \in FsEntries : remove(e)

Spec == Init /\ [][Next]_vars

TypeOK ==
    /\ env \in [Names -> {None} \cup {Some(t) : t \in EnvTexts}]
    /\ fs \in [FsEntries -> Kinds]
    /\ outcome.kind \in {"none", "return", "raise"}

\* ------------------------------------- get_boolean_from_env over all texts
BoolAlphabet == {"o", "O", "n", "N", "f", "F"}

BoolTexts ==
    TextsOver(BoolAlphabet, MaxLen) \cup
    { <<"t","r","u","e">>, <<"T","R","U","E">>, <<"T","r","u","e">>,
      <<"t","R","u","E">>, <<"1">>, <<"y","e","s">>, <<"Y","E","S">>,
      <<"f","a","l","s","e">>, <<"F","A","L","S","E">>, <<"F","a","l","s","e">>,
      <<"0">>, <<"m","a","y","b","e">>, <<" ","o","n">>, <<"1","0">> }

InitBool ==
    /\ \E n \in Names, t \in BoolTexts :
          env = [m \in Names |-> IF m = n THEN Some(t) ELSE None]
    /\ fs = [e \in FsEntries |-> "absent"]
    /\ call = NoCall
    /\ outcome = NoOutcome
    /\ stdout = NoOutput
    /\ repeat = FALSE

NextBool == \E n \in Names, d \in BoolDefaults : get_boolean_from_env(n, d)

SpecBool == InitBool /\ [][NextBool]_vars

\* ------------------------------------- get_integer_from_env over all texts
IntAlphabet == {"4", "2", "0", "-", "_", " ", "a"}

IntTexts ==
    TextsOver(IntAlphabet, MaxLen) \cup
    { <<"a","b","c">>, <<"4",".","2">>, <<"+","7">>, <<"\t","4","2","\n">>,
      <<"4","2","L">>, <<"0","x","2">>, <<"4","e","2">> }

InitInt ==
    /\ \E n \in Names, t \in IntTexts :
          env = [m \in Names |-> IF m = n THEN Some(t) ELSE None]
    /\ fs = [e \in FsEntries |-> "absent"]
    /\ call = NoCall
    /\ outcome = NoOutcome
    /\ stdout = NoOutput
    /\ repeat = FALSE

NextInt == \E n \in Names, d \in IntDefaults : get_integer_from_env(n, d)

SpecInt == InitInt /\ [][NextInt]_vars

\* ------------------------------------------------------------ properties
\* The variable the last call named is unset / its text when set. An accessor
\* leaves env and fs as they were, so after a call they are what the call read.
ArgUnset == env[call.env_variable] = None
ArgText == env[call.env_variable].str
NotFound == Raise(EnvironmentVariableNotFoundError(call.env_variable))
NumericOrBoolean ==
    {"get_integer_from_env", "get_float_from_env", "get_boolean_from_env"}

\* C1: get_string on an unset variable with error_on_missing false returns
\* exactly the caller's default, never the text "None".
C1_StringDefaultWhenUnset ==
    (/\ call.fn = "get_string_from_env"
     /\ ArgUnset
     /\ ~call.error_on_missing_value)
    => /\ outcome = Return(call.default_value)
       /\ outcome # Return(PyStr(<<"N","o","n","e">>))

EqualIgnoringCase(a, b) ==
    /\ Len(a) = Len(b)
    /\ \A i \in 1..Len(a) :
          \/ a[i] = b[i]
          \/ \E k \in 1..Len(UpperCase) :
                {a[i], b[i]} = {UpperCase[k], LowerCase[k]}

TrueWords == {<<"t","r","u","e">>, <<"1">>, <<"y","e","s">>, <<"o","n">>}
FalseWords == {<<"f","a","l","s","e">>, <<"0">>, <<"n","o">>, <<"o","f","f">>}

C4_IntegerParsedOrDefault ==
    (call.fn = "get_integer_from_env" /\ ~ArgUnset) =>
        /\ int(ArgText).ok => outcome = Return(int(ArgText).value)
        /\ ~int(ArgText).ok => outcome = Return(call.default_value)
        /\ ArgText = <<"4","2">> => outcome = Return(PyInt(42))
        /\ ArgText = <<"-","4">> => outcome = Return(PyInt(-4))
        /\ ArgText = <<" ","4","_","2">> => outcome = Return(PyInt(42))
        /\ ArgText \in {<<"a","b","c">>, <<"4",".","2">>, <<>>, <<"4","_">>}
              => outcome = Return(call.default_value)

C4_Witness ==
    /\ call.fn = "get_integer_from_env"
    /\ ~ArgUnset
    /\ ArgText = <<"-","4","2">>
    /\ call.default_value = PyInt(7)
    /\ outcome = Return(PyInt(-42))

\* The node a Path resolves to.
ResolvePath(p, f) == Walk(IF p.root = "" THEN Cwd ELSE <<>>, p.parts, f)

C7_Idempotent ==
    [][(call # NoCall /\ call' = call) => outcome' = outcome]_vars

C7_Witness ==
    /\ repeat
    /\ call.fn = "get_log_directory"
    /\ outcome = NotFound

\* C8: no accessor call, returning or raising, sets, changes or removes an
\* environment variable.
C8_EnvironmentUnchanged ==
    [][call' # NoCall => env' = env]_vars

C8_Witness ==
    /\ call.fn = "get_path_from_env"
    /\ outcome.kind = "raise"
    /\ \E n \in Names : env[n] # None

\* C9: on an unset variable get_integer, get_float and get_boolean return
\* exactly the default they were given.
C9_UnsetReturnsDefault ==
    (call.fn \in NumericOrBoolean /\ ArgUnset) =>
        outcome = Return(call.default_value)

C9_Witness ==
    /\ call.fn = "get_float_from_env"
    /\ ArgUnset
    /\ call.default_value = PyInt(7)
    /\ outcome = Return(PyInt(7))

IsInvalidNotice(text) ==
    text \in {"Error: {} environment variable '{}' is not a valid integer. Defaulting to {}.",
              "Error: {} environment variable '{}' is not a valid float. Defaulting to {}.",
              "Error: {} environment variable '{}' is not a valid boolean. Defaulting to {}."}

====
